---- MODULE Spec2Model ----
(***************************************************************************)
(* Model of blog_server.go: the process (main), the gRPC Serve goroutine,  *)
(* the five BlogService handlers and the MongoDB collection they share.    *)
(* Strings that the code parses or formats (blog ids) are sequences of     *)
(* one-character strings; opaque strings (author, title, content) are      *)
(* TLA+ strings.                                                           *)
(***************************************************************************)
EXTENDS Integers, Sequences, FiniteSets, TLC

\* ------------------------------------------------------------------ bounds
\* Number of calls the gRPC layer serves at the same time.
MaxCalls == 2
\* Number of documents the collection ever receives.
MaxCreates == 2
\* Documents one cursor round trip (find, getMore) returns.
BatchSize == 1
\* Number of calls the server accepts in one run.
MaxRequests == 3

\* ------------------------------------------------------- program constants
\* primitive.ObjectID is [12]byte.
ObjectIDLen == 12

Calls == 1..MaxCalls

\* ------------------------------------------------------------ identifiers
HexDigits ==
  <<"0", "1", "2", "3", "4", "5", "6", "7", "8", "9", "a", "b", "c", "d", "e", "f">>

\* encoding/hex: the value of one hexadecimal character, -1 when it is none.
FromHexChar(ch) ==
  CASE ch = "0" -> 0 [] ch = "1" -> 1 [] ch = "2" -> 2 [] ch = "3" -> 3
    [] ch = "4" -> 4 [] ch = "5" -> 5 [] ch = "6" -> 6 [] ch = "7" -> 7
    [] ch = "8" -> 8 [] ch = "9" -> 9
    [] ch \in {"a", "A"} -> 10 [] ch \in {"b", "B"} -> 11
    [] ch \in {"c", "C"} -> 12 [] ch \in {"d", "D"} -> 13
    [] ch \in {"e", "E"} -> 14 [] ch \in {"f", "F"} -> 15
    [] OTHER -> 0 - 1

NilObjectID == [i \in 1..ObjectIDLen |-> 0]

IsZero(oid) == oid = NilObjectID

\* ObjectID.Hex(): two lower-case hexadecimal characters per byte.
Hex(oid) ==
  [i \in 1..(2 * Len(oid)) |->
     IF i % 2 = 1 THEN HexDigits[(oid[(i + 1) \div 2] \div 16) + 1]
                  ELSE HexDigits[(oid[i \div 2] % 16) + 1]]

\* A parse that forgets the length test: too short a string is padded with zeros.
ObjectIDFromHexNoLength(s) ==
  IF \E i \in 1..Len(s) : FromHexChar(s[i]) < 0
    THEN [err |-> TRUE, oid |-> NilObjectID]
    ELSE [err |-> FALSE,
          oid |-> [i \in 1..ObjectIDLen |->
                     (IF 2 * i - 1 <= Len(s) THEN 16 * FromHexChar(s[2 * i - 1]) ELSE 0)
                     + (IF 2 * i <= Len(s) THEN FromHexChar(s[2 * i]) ELSE 0)]]

\* primitive.ObjectIDFromHex: exactly 24 hexadecimal characters, either case.
ObjectIDFromHex(s) ==
  IF Len(s) # 2 * ObjectIDLen
    THEN [err |-> TRUE, oid |-> NilObjectID]
    ELSE IF \E i \in 1..Len(s) : FromHexChar(s[i]) < 0
      THEN [err |-> TRUE, oid |-> NilObjectID]
      ELSE [err |-> FALSE,
            oid |-> [i \in 1..ObjectIDLen |->
                       16 * FromHexChar(s[2 * i - 1]) + FromHexChar(s[2 * i])]]

\* primitive.NewObjectID as the driver calls it for a document without _id:
\* 4 bytes of time, 5 bytes unique to the process, a 3-byte counter.
NewObjectID(n) ==
  <<95, 171, 205, 239>> \o <<18, 52, 86, 120, 154>>
    \o <<(n \div 65536) % 256, (n \div 256) % 256, n % 256>>

ToUpperChar(ch) ==
  CASE ch = "a" -> "A" [] ch = "b" -> "B" [] ch = "c" -> "C"
    [] ch = "d" -> "D" [] ch = "e" -> "E" [] ch = "f" -> "F" [] OTHER -> ch

ToUpper(s) == [i \in 1..Len(s) |-> ToUpperChar(s[i])]

\* The id strings a client sends: the ids the store hands out, one of them in
\* upper case, a well-formed id of no record, and three malformed strings.
WellFormedIds ==
  {Hex(NewObjectID(n)) : n \in 1..MaxCreates}
    \cup {ToUpper(Hex(NewObjectID(1))), Hex(NilObjectID)}

MalformedIds ==
  {<< >>,
   SubSeq(Hex(NewObjectID(1)), 1, 2 * ObjectIDLen - 1),
   [Hex(NewObjectID(1)) EXCEPT ![2 * ObjectIDLen] = "z"]}

ReqIds == WellFormedIds \cup MalformedIds

\* primitive.ObjectIDFromHex of each of them.
ParsedIds == [id \in ReqIds |-> ObjectIDFromHex(id)]

\* The (authorId, title, content) payloads a client sends.
Payloads ==
  {[authorId |-> "u1", title |-> "hello", content |-> "world"],
   [authorId |-> "u2", title |-> "", content |-> "moon"]}

NoPayload == [authorId |-> "", title |-> "", content |-> ""]


\* -------------------------------------------------------------- conversions
\* blogpb.Blog, the wire form.
NilBlog == [id |-> << >>, authorId |-> "", title |-> "", content |-> ""]

\* The blogItem CreateBlog inserts: the three request fields, ID left zero.
insertData(blog) ==
  [ID |-> NilObjectID, AuthorID |-> blog.authorId,
   Title |-> blog.title, Content |-> blog.content]

\* A replacement that takes the author for the title.
replaceDataMixed(blog) ==
  [ID |-> NilObjectID, AuthorID |-> blog.authorId,
   Title |-> blog.authorId, Content |-> blog.content]

\* The blogItem UpdateBlog replaces with: the three request fields, ID left zero.
replaceData(blog) ==
  [ID |-> NilObjectID, AuthorID |-> blog.authorId,
   Title |-> blog.title, Content |-> blog.content]

\* A conversion that swaps title and content.
blogItemToBlogpbSwapped(item) ==
  [id |-> Hex(item.ID), authorId |-> item.AuthorID,
   title |-> item.Content, content |-> item.Title]

blogItemToBlogpb(item) ==
  [id |-> Hex(item.ID), authorId |-> item.AuthorID,
   title |-> item.Title, content |-> item.Content]

\* ------------------------------------------------- the collection (driver)
Min(a, b) == IF a < b THEN a ELSE b

HasDoc(ds, oid) == \E i \in 1..Len(ds) : ds[i].ID = oid

FirstMatch(ds, oid) == CHOOSE i \in 1..Len(ds) : ds[i].ID = oid

\* InsertOne: `_id,omitempty` leaves a zero ID out, and the driver then assigns
\* a new ObjectID, which it reports as InsertedID.
InsertOne(ds, doc, n) ==
  LET id == IF IsZero(doc.ID) THEN NewObjectID(n) ELSE doc.ID
  IN [docs |-> Append(ds, [doc EXCEPT !.ID = id]),
      InsertedID |-> [type |-> "ObjectID", value |-> id]]

\* FindOne by _id, then SingleResult.Decode.
FindOne(ds, oid) ==
  IF HasDoc(ds, oid)
    THEN [found |-> TRUE, doc |-> ds[FirstMatch(ds, oid)]]
    ELSE [found |-> FALSE, doc |-> insertData(NoPayload)]

\* ReplaceOne by _id without upsert: the replacement carries no _id, so the
\* document keeps its own; no match is MatchedCount 0 and no error.
ReplaceOne(ds, oid, doc) ==
  IF HasDoc(ds, oid)
    THEN [docs |-> [ds EXCEPT ![FirstMatch(ds, oid)] =
                      [doc EXCEPT !.ID = IF IsZero(doc.ID) THEN oid ELSE doc.ID]],
          MatchedCount |-> 1]
    ELSE [docs |-> ds, MatchedCount |-> 0]

\* DeleteOne by _id.
DeleteOne(ds, oid) ==
  IF HasDoc(ds, oid)
    THEN LET k == FirstMatch(ds, oid)
         IN [docs |-> SubSeq(ds, 1, k - 1) \o SubSeq(ds, k + 1, Len(ds)),
             DeletedCount |-> 1]
    ELSE [docs |-> ds, DeletedCount |-> 0]

\* One cursor round trip (find or getMore): the next BatchSize documents the
\* cursor has not returned yet; the server ends the cursor when it runs out.
Fetch(ds, seen) ==
  LET Unseen(d) == d.ID \notin seen
      rest == SelectSeq(ds, Unseen)
      batch == SubSeq(rest, 1, Min(BatchSize, Len(rest)))
  IN [batch |-> batch,
      seen |-> seen \cup {batch[i].ID : i \in 1..Len(batch)},
      exhausted |-> Len(rest) < BatchSize]

NoCursor ==
  [state |-> "none", buf |-> << >>, seen |-> {}, exhausted |-> FALSE, closes |-> 0]

\* ------------------------------------------------------------------ state
VARIABLES
  mainPc,       \* where main() is: start, connected, listening, waiting,
                \*   stopped, disconnected, exited, fatal (log.Fatalf)
  srvPc,        \* the goroutine around Serve: none, spawned, serving, returned, fatal
  collection,   \* the global handle: "nil" or "set"
  connects,     \* client.Connect calls that succeeded
  disconnects,  \* client.Disconnect calls
  listener,     \* the TCP listener: none, open, closed
  stopped,      \* serverControl.Stop() has been called
  docs,         \* the documents of mydb.blog, in the store's iteration order
  oidCounter,   \* ObjectIDs the driver has generated
  accepted,     \* calls the server has accepted
  calls,        \* the handler invocation of each call in flight
  returned,     \* the call whose handler returned in the last step, if one did
  fresh,        \* history: the blogs CreateBlog returned whose records no
                \*   replace or delete has matched since
  lastWrite     \* history: per record id, the payload of the last CreateBlog
                \*   or UpdateBlog call that wrote the record

vars ==
  <<mainPc, srvPc, collection, connects, disconnects, listener, stopped,
    docs, oidCounter, accepted, calls, returned, fresh, lastWrite>>

procVars == <<mainPc, srvPc, collection, connects, disconnects, listener, stopped>>

history == <<fresh, lastWrite>>

\* A call: the request, the handler's local variables, and its response.
IdleCall ==
  [pc |-> "idle", op |-> "none", id |-> << >>, blog |-> NoPayload,
   cancelled |-> FALSE,   \* the stream of the call is cancelled
   storeOps |-> 0,        \* store operations the handler has issued
   storeErr |-> FALSE,    \* insertErr, updateErr, deleteErr, err of Find, cur.Err()
   noDocuments |-> FALSE, \* the store answered that nothing matches
   decodeErr |-> FALSE,   \* a document did not decode into blogItem
   failedAt |-> 0,        \* the first stream.Send that returned an error
   cur |-> NoCursor, sent |-> << >>, mutated |-> FALSE,
   code |-> "none", nilResp |-> TRUE, respBlog |-> NilBlog, respId |-> << >>]

NoCalls == [c \in Calls |-> IdleCall]

Init ==
  /\ mainPc = "start"
  /\ srvPc = "none"
  /\ collection = "nil"
  /\ connects = 0
  /\ disconnects = 0
  /\ listener = "none"
  /\ stopped = FALSE
  /\ docs = << >>
  /\ oidCounter = 0
  /\ accepted = 0
  /\ calls = NoCalls
  /\ returned = IdleCall
  /\ fresh = {}
  /\ lastWrite = {}

\* The process runs until main returns or a goroutine calls log.Fatalf.
Alive == mainPc \notin {"exited", "fatal"}

\* The client is connected: store operations can succeed.
StoreUp == connects > 0 /\ disconnects = 0

\* Whether a store round trip goes through: never on a disconnected client.
CommOutcomes == IF StoreUp THEN BOOLEAN ELSE {FALSE}

InFlight(call) == call.pc \in {"running", "iter"}

\* ------------------------------------------------------------------- main
\* mongo.NewClient, client.Connect, collection = ...; log.Fatalf on failure.
MainConnect ==
  /\ mainPc = "start"
  /\ \E ok \in BOOLEAN :
       IF ok
         THEN /\ connects' = connects + 1
              /\ collection' = "set"
              /\ mainPc' = "connected"
         ELSE /\ mainPc' = "fatal"
              /\ UNCHANGED <<connects, collection>>
  /\ UNCHANGED <<srvPc, disconnects, listener, stopped, docs, oidCounter, accepted,
                 calls, history>>
  /\ returned' = IdleCall

\* net.Listen; log.Fatalf on failure.
MainListen ==
  /\ mainPc = "connected"
  /\ \E ok \in BOOLEAN :
       IF ok
         THEN /\ listener' = "open"
              /\ mainPc' = "listening"
         ELSE /\ mainPc' = "fatal"
              /\ UNCHANGED listener
  /\ UNCHANGED <<srvPc, collection, connects, disconnects, stopped, docs, oidCounter,
                 accepted, calls, history>>
  /\ returned' = IdleCall

\* grpc.NewServer, RegisterBlogServiceServer, go func(){ Serve }, signal.Notify.
MainServe ==
  /\ mainPc = "listening"
  /\ mainPc' = "waiting"
  /\ srvPc' = "spawned"
  /\ UNCHANGED <<collection, connects, disconnects, listener, stopped, docs, oidCounter,
                 accepted, calls, history>>
  /\ returned' = IdleCall

\* The goroutine reaches Serve: it serves, or, on a server already stopped,
\* Serve returns an error and log.Fatalf ends the process and its goroutines.
ServeStart ==
  /\ Alive
  /\ srvPc = "spawned"
  /\ IF stopped
       THEN srvPc' = "fatal" /\ mainPc' = "fatal" /\ calls' = NoCalls
       ELSE srvPc' = "serving" /\ UNCHANGED <<mainPc, calls>>
  /\ returned' = IdleCall
  /\ UNCHANGED <<collection, connects, disconnects, listener, stopped, docs, oidCounter,
                 accepted, history>>

\* Serve fails while serving (Accept gives up): log.Fatalf ends the process.
ServeFail ==
  /\ Alive
  /\ srvPc = "serving"
  /\ ~stopped
  /\ srvPc' = "fatal"
  /\ mainPc' = "fatal"
  /\ calls' = NoCalls
  /\ returned' = IdleCall
  /\ UNCHANGED <<collection, connects, disconnects, listener, stopped, docs, oidCounter,
                 accepted, history>>

\* <-shutdownCh, serverControl.Stop(): listeners and connections are closed,
\* which cancels the streams in flight; the handlers are not waited for.
\* Then listen.Close(), on a listener Stop has closed already.
MainStop ==
  /\ mainPc = "waiting"
  /\ mainPc' = "stopped"
  /\ stopped' = TRUE
  /\ listener' = "closed"
  /\ srvPc' = IF srvPc = "serving" THEN "returned" ELSE srvPc
  /\ calls' = [c \in Calls |->
                 IF InFlight(calls[c]) /\ calls[c].op = "ListBlog"
                   THEN [calls[c] EXCEPT !.cancelled = TRUE]
                   ELSE calls[c]]
  /\ returned' = IdleCall
  /\ UNCHANGED <<collection, connects, disconnects, docs, oidCounter, accepted, history>>

\* client.Disconnect(ctx).
MainDisconnect ==
  /\ mainPc = "stopped"
  /\ mainPc' = "disconnected"
  /\ disconnects' = disconnects + 1
  /\ UNCHANGED <<srvPc, collection, connects, listener, stopped, docs, oidCounter,
                 accepted, calls, history>>
  /\ returned' = IdleCall

\* main returns: the process ends, and with it every goroutine still running.
MainReturn ==
  /\ mainPc = "disconnected"
  /\ mainPc' = "exited"
  /\ calls' = NoCalls
  /\ returned' = IdleCall
  /\ UNCHANGED <<srvPc, collection, connects, disconnects, listener, stopped, docs,
                 oidCounter, accepted, history>>

\* -------------------------------------------------------------- responses
\* status.Errorf(code, ...) with a nil response.
Failure(code) == [code |-> code, nilResp |-> TRUE, blog |-> NilBlog, id |-> << >>]

OkBlog(blog) == [code |-> "OK", nilResp |-> FALSE, blog |-> blog, id |-> << >>]

OkId(id) == [code |-> "OK", nilResp |-> FALSE, blog |-> NilBlog, id |-> id]

\* CreateBlog after InsertOne: the request's fields with the inserted id.
CreateBlogResponse(blog, insertErr, InsertedID) ==
  IF insertErr
    THEN Failure("Internal")
    ELSE IF InsertedID.type # "ObjectID"
      THEN Failure("Internal")
      ELSE OkBlog([id |-> Hex(InsertedID.value), authorId |-> blog.authorId,
                   title |-> blog.title, content |-> blog.content])

\* ReadBlog after FindOne(...).Decode(data): every error is NotFound.
ReadBlogResponse(err, data) ==
  IF err THEN Failure("NotFound") ELSE OkBlog(blogItemToBlogpb(data))

\* UpdateBlog after ReplaceOne: only updateErr is looked at.
UpdateBlogResponse(updateErr, blogID, data) ==
  IF updateErr
    THEN Failure("NotFound")
    ELSE OkBlog(blogItemToBlogpb([data EXCEPT !.ID = blogID]))

\* A DeleteBlog that does not look at DeletedCount.
DeleteBlogResponseNoCount(deleteErr, DeletedCount, blogId) ==
  IF deleteErr THEN Failure("Internal") ELSE OkId(blogId)

\* DeleteBlog after DeleteOne.
DeleteBlogResponse(deleteErr, DeletedCount, blogId) ==
  IF deleteErr
    THEN Failure("Internal")
    ELSE IF DeletedCount = 0 THEN Failure("NotFound") ELSE OkId(blogId)

\* The handler returns resp.
Finish(call, resp) ==
  [call EXCEPT !.pc = "done", !.code = resp.code, !.nilResp = resp.nilResp,
               !.respBlog = resp.blog, !.respId = resp.id]

\* The handler of call c has come to `call`: when it has returned, its response
\* goes out and its goroutine ends.
Step(cs, c, call) ==
  /\ calls' = [cs EXCEPT ![c] = IF call.pc = "done" THEN IdleCall ELSE call]
  /\ returned' = IF call.pc = "done" THEN call ELSE IdleCall

\* A change of the collection is seen by every cursor that is open.
MarkMutated(cs, changed) ==
  [c \in Calls |->
     IF changed /\ cs[c].pc = "iter" THEN [cs[c] EXCEPT !.mutated = TRUE] ELSE cs[c]]

\* History: the records of these ids have been replaced or deleted.
Touch(blogs, id) == {b \in blogs : b.id # id}

\* History: the record of this id now holds this payload (or is gone).
Written(ws, id, payloads) ==
  {w \in ws : w.id # id} \cup {[id |-> id, payload |-> p] : p \in payloads}

\* ----------------------------------------------------------- the gRPC layer
\* Serve accepts a call and starts its handler in a goroutine of its own.
Dispatch(c) ==
  /\ Alive
  /\ srvPc = "serving"
  /\ ~stopped
  /\ calls[c].pc = "idle"
  /\ accepted < MaxRequests
  /\ accepted' = accepted + 1
  /\ \E op \in {"CreateBlog", "ReadBlog", "UpdateBlog", "DeleteBlog", "ListBlog"} :
       Step(calls, c, [IdleCall EXCEPT !.pc = "running", !.op = op])
  /\ UNCHANGED <<procVars, docs, oidCounter, history>>

\* The caller or the transport cancels a streaming call in flight (the unary
\* handlers never look at their ctx).
Cancel(c) ==
  /\ Alive
  /\ InFlight(calls[c])
  /\ calls[c].op = "ListBlog"
  /\ ~calls[c].cancelled
  /\ Step(calls, c, [calls[c] EXCEPT !.cancelled = TRUE])
  /\ UNCHANGED <<procVars, docs, oidCounter, accepted, history>>

\* ------------------------------------------------------------ the handlers
CreateBlog(c) ==
  /\ Alive
  /\ calls[c].pc = "running"
  /\ calls[c].op = "CreateBlog"
  /\ \E blog \in Payloads, commOk \in CommOutcomes :
       LET r == InsertOne(docs, insertData(blog), oidCounter + 1)
           resp == CreateBlogResponse(blog, ~commOk, r.InsertedID)
           call == [calls[c] EXCEPT !.blog = blog, !.storeOps = @ + 1,
                                    !.storeErr = ~commOk]
       IN /\ commOk => oidCounter < MaxCreates
          /\ docs' = IF commOk THEN r.docs ELSE docs
          /\ oidCounter' = IF commOk THEN oidCounter + 1 ELSE oidCounter
          /\ Step(MarkMutated(calls, commOk), c, Finish(call, resp))
          /\ fresh' = IF resp.code = "OK" THEN fresh \cup {resp.blog} ELSE fresh
          /\ lastWrite' = IF resp.code = "OK"
                            THEN Written(lastWrite, resp.blog.id, {blog})
                            ELSE lastWrite
  /\ UNCHANGED <<procVars, accepted>>

ReadBlog(c) ==
  /\ Alive
  /\ calls[c].pc = "running"
  /\ calls[c].op = "ReadBlog"
  /\ \E id \in ReqIds :
       LET p == ParsedIds[id]
           req == [calls[c] EXCEPT !.id = id]
       IN IF p.err
            THEN Step(calls, c, Finish(req, Failure("InvalidArgument")))
            ELSE \E commOk \in CommOutcomes, decodeOk \in BOOLEAN :
                   LET res == FindOne(docs, p.oid)
                       err == ~commOk \/ ~res.found \/ ~decodeOk
                       call == [req EXCEPT
                                  !.storeOps = @ + 1,
                                  !.storeErr = ~commOk,
                                  !.noDocuments = commOk /\ ~res.found,
                                  !.decodeErr = commOk /\ res.found /\ ~decodeOk]
                   IN Step(calls, c, Finish(call, ReadBlogResponse(err, res.doc)))
  /\ UNCHANGED <<procVars, docs, oidCounter, accepted, history>>

UpdateBlog(c) ==
  /\ Alive
  /\ calls[c].pc = "running"
  /\ calls[c].op = "UpdateBlog"
  /\ \E id \in ReqIds, blog \in Payloads :
       LET p == ParsedIds[id]
           req == [calls[c] EXCEPT !.id = id, !.blog = blog]
       IN IF p.err
            THEN /\ Step(calls, c, Finish(req, Failure("InvalidArgument")))
                 /\ UNCHANGED <<docs, history>>
            ELSE \E commOk \in CommOutcomes :
                   LET data == replaceData(blog)
                       r == ReplaceOne(docs, p.oid, data)
                       hit == commOk /\ r.MatchedCount > 0
                       call == [req EXCEPT
                                  !.storeOps = @ + 1,
                                  !.storeErr = ~commOk,
                                  !.noDocuments = commOk /\ r.MatchedCount = 0]
                   IN /\ docs' = IF commOk THEN r.docs ELSE docs
                      /\ Step(MarkMutated(calls, hit), c,
                              Finish(call, UpdateBlogResponse(~commOk, p.oid, data)))
                      /\ fresh' = IF hit THEN Touch(fresh, Hex(p.oid)) ELSE fresh
                      /\ lastWrite' = IF hit THEN Written(lastWrite, Hex(p.oid), {blog})
                                             ELSE lastWrite
  /\ UNCHANGED <<procVars, oidCounter, accepted>>

DeleteBlog(c) ==
  /\ Alive
  /\ calls[c].pc = "running"
  /\ calls[c].op = "DeleteBlog"
  /\ \E id \in ReqIds :
       LET p == ParsedIds[id]
           req == [calls[c] EXCEPT !.id = id]
       IN IF p.err
            THEN /\ Step(calls, c, Finish(req, Failure("InvalidArgument")))
                 /\ UNCHANGED <<docs, history>>
            ELSE \E commOk \in CommOutcomes :
                   LET r == DeleteOne(docs, p.oid)
                       hit == commOk /\ r.DeletedCount > 0
                       call == [req EXCEPT
                                  !.storeOps = @ + 1,
                                  !.storeErr = ~commOk,
                                  !.noDocuments = commOk /\ r.DeletedCount = 0]
                   IN /\ docs' = IF commOk THEN r.docs ELSE docs
                      /\ Step(MarkMutated(calls, hit), c,
                              Finish(call, DeleteBlogResponse(~commOk, r.DeletedCount, id)))
                      /\ fresh' = IF hit THEN Touch(fresh, Hex(p.oid)) ELSE fresh
                      /\ lastWrite' = IF hit THEN Written(lastWrite, Hex(p.oid), {})
                                             ELSE lastWrite
  /\ UNCHANGED <<procVars, oidCounter, accepted>>

\* stream.Send of a loop that stops after its first element.
StreamSendFirstOnly(sent, blog) == IF sent = << >> THEN Append(sent, blog) ELSE sent

\* stream.Send(&ListBlogResponse{Blog: ...}): one more message on the stream.
StreamSend(sent, blog) == Append(sent, blog)

\* A ListBlog that closes its cursor only at the end of a full iteration.
ListReturnNoDefer(call, code) ==
  Finish([call EXCEPT !.cur = IF code = "OK"
                                 THEN [NoCursor EXCEPT !.state = "closed",
                                                       !.closes = call.cur.closes + 1]
                                 ELSE call.cur],
         [Failure(code) EXCEPT !.nilResp = code # "OK"])

\* ListBlog returns: the deferred cur.Close runs, then the status goes out.
ListReturn(call, code) ==
  Finish([call EXCEPT !.cur = [NoCursor EXCEPT !.state = "closed",
                                               !.closes = call.cur.closes + 1]],
         [Failure(code) EXCEPT !.nilResp = code # "OK"])

\* collection.Find: the cursor with its first batch, or an error.
ListFind(c) ==
  /\ Alive
  /\ calls[c].pc = "running"
  /\ calls[c].op = "ListBlog"
  /\ \E commOk \in CommOutcomes :
       LET f == Fetch(docs, {})
           call == [calls[c] EXCEPT !.storeOps = @ + 1, !.storeErr = ~commOk]
       IN Step(calls, c,
               IF commOk
                 THEN [call EXCEPT !.pc = "iter",
                                   !.cur = [state |-> "open", buf |-> f.batch,
                                            seen |-> f.seen, exhausted |-> f.exhausted,
                                            closes |-> 0]]
                 ELSE Finish(call, Failure("Internal")))
  /\ UNCHANGED <<procVars, docs, oidCounter, accepted, history>>

\* cur.Next finds a buffered document: Decode, then stream.Send, whose error
\* (the stream is cancelled) is not looked at.
ListNextItem(c) ==
  /\ Alive
  /\ calls[c].pc = "iter"
  /\ calls[c].cur.buf # << >>
  /\ \E decodeOk \in BOOLEAN :
       LET call == calls[c]
           item == Head(call.cur.buf)
       IN Step(calls, c,
               IF decodeOk
                 THEN [call EXCEPT
                         !.cur.buf = Tail(@),
                         !.sent = StreamSend(@, blogItemToBlogpb(item)),
                         !.failedAt = IF call.cancelled /\ @ = 0
                                        THEN Len(call.sent) + 1 ELSE @]
                 ELSE ListReturn([call EXCEPT !.decodeErr = TRUE], "Internal"))
  /\ UNCHANGED <<procVars, docs, oidCounter, accepted, history>>

\* cur.Next needs another batch: a getMore round trip; when it fails, Next
\* returns false and cur.Err() is the error.
ListGetMore(c) ==
  /\ Alive
  /\ calls[c].pc = "iter"
  /\ calls[c].cur.buf = << >>
  /\ ~calls[c].cur.exhausted
  /\ \E commOk \in CommOutcomes :
       LET f == Fetch(docs, calls[c].cur.seen)
           call == [calls[c] EXCEPT !.storeOps = @ + 1, !.storeErr = ~commOk]
       IN Step(calls, c,
               IF commOk
                 THEN [call EXCEPT !.cur.buf = f.batch, !.cur.seen = f.seen,
                                   !.cur.exhausted = f.exhausted]
                 ELSE ListReturn(call, "Internal"))
  /\ UNCHANGED <<procVars, docs, oidCounter, accepted, history>>

\* cur.Next returns false on an exhausted cursor, cur.Err() is nil: return nil.
ListEnd(c) ==
  /\ Alive
  /\ calls[c].pc = "iter"
  /\ calls[c].cur.buf = << >>
  /\ calls[c].cur.exhausted
  /\ Step(calls, c, ListReturn(calls[c], "OK"))
  /\ UNCHANGED <<procVars, docs, oidCounter, accepted, history>>

\* ---------------------------------------------------------- specification
Next ==
  \/ MainConnect
  \/ MainListen
  \/ MainServe
  \/ ServeStart
  \/ ServeFail
  \/ MainStop
  \/ MainDisconnect
  \/ MainReturn
  \/ \E c \in Calls : Dispatch(c)
  \/ \E c \in Calls : Cancel(c)
  \/ \E c \in Calls : CreateBlog(c)
  \/ \E c \in Calls : ReadBlog(c)
  \/ \E c \in Calls : UpdateBlog(c)
  \/ \E c \in Calls : DeleteBlog(c)
  \/ \E c \in Calls : ListFind(c)
  \/ \E c \in Calls : ListNextItem(c)
  \/ \E c \in Calls : ListGetMore(c)
  \/ \E c \in Calls : ListEnd(c)

Spec == Init /\ [][Next]_vars

\* ------------------------------------------------------------- properties
\* A handler returns in this step; `returned'` is its call.
Returns(ops) == returned'.pc = "done" /\ returned'.op \in ops

\* A handler has just returned; `returned` is its call.
Returned(ops) == returned.pc = "done" /\ returned.op \in ops

HexChars ==
  {"0", "1", "2", "3", "4", "5", "6", "7", "8", "9",
   "a", "b", "c", "d", "e", "f", "A", "B", "C", "D", "E", "F"}

\* A well-formed identifier string: 24 hexadecimal characters.
IsIdString(s) == Len(s) = 2 * ObjectIDLen /\ \A i \in 1..Len(s) : s[i] \in HexChars

\* The payload a blog view or a stored document carries.
ViewPayload(b) == [authorId |-> b.authorId, title |-> b.title, content |-> b.content]

DocPayload(d) == [authorId |-> d.AuthorID, title |-> d.Title, content |-> d.Content]

\* The id string names a document of ds, whatever the case of its letters.
Stored(ds, id) == \E i \in 1..Len(ds) : ToUpper(Hex(ds[i].ID)) = ToUpper(id)

\* C1: a CreateBlog whose insert succeeds returns OK with a well-formed id and
\* the request's fields, and a ReadBlog of that id that the store answers, with
\* no replace or delete of the record in between, returns OK with that same blog.
C1_CreateThenRead ==
  [][/\ (Returns({"CreateBlog"}) /\ ~returned'.storeErr)
          => /\ returned'.code = "OK"
             /\ ~returned'.nilResp
             /\ IsIdString(returned'.respBlog.id)
             /\ ViewPayload(returned'.respBlog) = returned'.blog
             /\ returned'.respBlog \in fresh'
     /\ (Returns({"ReadBlog"}) /\ ~returned'.storeErr /\ ~returned'.decodeErr)
          => \A b \in fresh :
               b.id = returned'.id
                 => returned'.code = "OK" /\ returned'.respBlog = b]_vars

\* C1 happens: a ReadBlog has returned the blog of an earlier CreateBlog.
C1_Witness ==
  /\ Returned({"ReadBlog"})
  /\ returned.code = "OK"
  /\ returned.respBlog \in fresh
  /\ returned.respBlog.id = returned.id

\* C2: ReadBlog, UpdateBlog and DeleteBlog with a malformed id fail with
\* InvalidArgument, issue no store operation and leave the documents as they are.
C2_MalformedId ==
  [][(Returns({"ReadBlog", "UpdateBlog", "DeleteBlog"}) /\ ~IsIdString(returned'.id))
       => /\ returned'.code = "InvalidArgument"
          /\ returned'.nilResp
          /\ returned'.storeOps = 0
          /\ docs' = docs]_vars

\* C2 happens: an UpdateBlog with a malformed id was refused while a record exists.
C2_Witness ==
  /\ Returned({"UpdateBlog"})
  /\ returned.id \in MalformedIds
  /\ returned.code = "InvalidArgument"
  /\ docs # << >>

\* C3: ReadBlog and DeleteBlog of a well-formed id that names no stored record
\* never succeed and leave the documents as they are; when the store answers,
\* they fail with NotFound (so a second delete of an id fails with NotFound).
C3_AbsentId ==
  [][(Returns({"ReadBlog", "DeleteBlog"})
        /\ IsIdString(returned'.id)
        /\ ~Stored(docs, returned'.id))
       => /\ returned'.code # "OK"
          /\ returned'.nilResp
          /\ docs' = docs
          /\ (~returned'.storeErr => returned'.code = "NotFound")]_vars

\* C3 happens: a DeleteBlog of an id the store once assigned, whose record is
\* gone, has failed with NotFound.
C3_Witness ==
  /\ Returned({"DeleteBlog"})
  /\ returned.code = "NotFound"
  /\ \E n \in 1..oidCounter : returned.id = Hex(NewObjectID(n))
  /\ ~Stored(docs, returned.id)

\* C4: an UpdateBlog with a well-formed id that names no stored record fails
\* with NotFound, returns no blog, and leaves the documents as they are.
C4_UpdateAbsent ==
  [][(Returns({"UpdateBlog"})
        /\ IsIdString(returned'.id)
        /\ ~Stored(docs, returned'.id))
       => /\ returned'.code = "NotFound"
          /\ returned'.nilResp
          /\ docs' = docs]_vars

\* The blogs ListBlog owes for the documents ds, in their order.
ViewsOf(ds) ==
  [i \in 1..Len(ds) |->
     [id |-> Hex(ds[i].ID), authorId |-> ds[i].AuthorID,
      title |-> ds[i].Title, content |-> ds[i].Content]]

\* C5: a ListBlog with no change of the collection while its cursor is open and
\* no store or decode error hands the stream one blog per stored document, in
\* the store's order, and returns OK; on an empty collection it hands it none.
C5_ListAll ==
  [][(Returns({"ListBlog"})
        /\ ~returned'.mutated
        /\ ~returned'.storeErr
        /\ ~returned'.decodeErr)
       => /\ returned'.code = "OK"
          /\ returned'.sent = ViewsOf(docs)]_vars

\* C5 happens: a ListBlog over two documents has returned OK, undisturbed.
C5_Witness ==
  /\ Returned({"ListBlog"})
  /\ returned.code = "OK"
  /\ ~returned.mutated
  /\ ~returned.cancelled
  /\ Len(returned.sent) = 2
  /\ Len(docs) = 2

\* C6: in CreateBlog, ReadBlog, DeleteBlog and ListBlog a store round trip that
\* fails ends the call with Internal.
C6_StoreFailureInternal ==
  (Returned({"CreateBlog", "ReadBlog", "DeleteBlog", "ListBlog"}) /\ returned.storeErr)
    => returned.code = "Internal"

\* C7: a ListBlog that got a cursor has closed it exactly once when it returns,
\* however it returns; a cursor is open only while its handler iterates.
C7_CursorReleased ==
  /\ \A c \in Calls :
       /\ calls[c].cur.state = "open" <=> calls[c].pc = "iter"
       /\ calls[c].cur.state \in {"none", "open"}
       /\ calls[c].cur.closes = 0
  /\ Returned({"ListBlog"})
       => IF returned.storeErr /\ returned.storeOps = 1
            THEN returned.cur.state = "none" /\ returned.cur.closes = 0
            ELSE returned.cur.state = "closed" /\ returned.cur.closes = 1

\* C7 happens: a ListBlog whose stream was cancelled under it has sent a blog
\* into the cancelled stream and returned with its cursor closed.
C7_Witness ==
  /\ Returned({"ListBlog"})
  /\ returned.cancelled
  /\ returned.failedAt > 0
  /\ returned.cur.state = "closed"

\* C8: the store is connected once before serving; whenever the process has
\* ended the connection has been released exactly once, and only after the
\* listener stopped; no handler is in flight before the handle is set or once
\* the release has begun.
C8_Lifecycle ==
  /\ connects <= 1
  /\ disconnects <= 1
  /\ srvPc = "serving" => (connects = 1 /\ collection = "set")
  /\ (~Alive /\ connects = 1) => disconnects = 1
  /\ disconnects >= 1 => (stopped /\ listener = "closed")
  /\ \A c \in Calls :
       InFlight(calls[c]) => (collection = "set" /\ disconnects = 0)

\* C9: a call one of whose steps failed (a store round trip, a decode, a
\* stream.Send) does not return OK, and ListBlog sends nothing after a failure.
C9_NoErrorSwallowed ==
  /\ (Returned({"CreateBlog", "ReadBlog", "UpdateBlog", "DeleteBlog", "ListBlog"})
        /\ (returned.storeErr \/ returned.decodeErr \/ returned.failedAt > 0))
       => returned.code # "OK"
  /\ \A c \in Calls :
       calls[c].failedAt > 0 => Len(calls[c].sent) = calls[c].failedAt

\* C10: in every state the stored records have distinct ids and each holds
\* exactly the payload of the last CreateBlog or UpdateBlog call that wrote it;
\* what ReadBlog returns and ListBlog sends is such a whole payload; and no
\* step changes the id of a record that stays in the collection.
C10_Inv ==
  /\ \A i, j \in 1..Len(docs) : i # j => docs[i].ID # docs[j].ID
  /\ \A i \in 1..Len(docs) :
       [id |-> Hex(docs[i].ID), payload |-> DocPayload(docs[i])] \in lastWrite
  /\ (Returned({"ReadBlog"}) /\ returned.code = "OK")
       => ViewPayload(returned.respBlog) \in Payloads
  /\ \A c \in Calls :
       \A k \in 1..Len(calls[c].sent) : ViewPayload(calls[c].sent[k]) \in Payloads

\* C10 as a whole: the state invariant above in every state, and ids are kept
\* across every step that neither inserts nor deletes.
C10_WholeRecords ==
  /\ []C10_Inv
  /\ [][Len(docs') = Len(docs)
          => \A i \in 1..Len(docs) : docs'[i].ID = docs[i].ID]_vars

\* C10 happens: an UpdateBlog has replaced a record while a ListBlog that has
\* sent a blog had its cursor open.
C10_Witness ==
  /\ Returned({"UpdateBlog"})
  /\ returned.code = "OK"
  /\ ~returned.noDocuments
  /\ \E i \in 1..Len(docs) : DocPayload(docs[i]) = returned.blog
  /\ \E c \in Calls :
       /\ calls[c].pc = "iter"
       /\ calls[c].mutated
       /\ Len(calls[c].sent) >= 1
====
